---- MODULE Spec2Model ----
(***************************************************************************)
(* Model of GAR/quantfit/quantfit_main.py: the quantile-fit step of the    *)
(* Growth-at-Risk workbook tool.  do_quantfit runs prerun_quantfit (read    *)
(* the parameter cells, validate them, read the data), run_quantfit (build *)
(* the transformed regressor columns, run the fit) and postrun_quantfit    *)
(* (clear / create the output sheets and write the results).               *)
(*                                                                         *)
(* Conventions of the model                                                *)
(*   - a quantile level is an integer number of hundredths (0.10 is 10);   *)
(*   - a float cell value is an integer number of millionths (Micro), so   *)
(*     the validator's 1E-5 tolerance is 10 units;                         *)
(*   - a data value is NaN, +inf, -inf or an exact rational n/d;           *)
(*   - a name (column / regressor key) is a sequence of symbols, so that   *)
(*     concatenation and split('_trans_') are computed, not assumed;       *)
(*   - an empty cell (Python None) in a text cell is the string NoneCell.  *)
(***************************************************************************)
EXTENDS Integers, Sequences, FiniteSets, TLC

\* ------------------------------------------------------------------ bounds
\* Longest data series (rows of the input table).
MaxLen == 3
\* Largest lag / window / exponent entered in an option cell.
MaxLag == 2

\* ----------------------------------------------------------- cell values
\* The validator's tolerance 1E-5, in millionths.
Tolerance == 10
\* Float cell values are counted in millionths: 1.0 is 1E5 tolerances.
Micro == 100000 * Tolerance

NoneCell == "<None>"

None == [t |-> "None", v |-> 0]
Float(v) == [t |-> "float", v |-> v]
PyInt(n) == [t |-> "int", v |-> n]

Abs(n) == IF n < 0 THEN -n ELSE n

Range(s) == {s[i] : i \in 1..Len(s)}

\* Python int(float): truncation toward zero.
int(v) == IF v >= 0 THEN v \div Micro ELSE -((-v) \div Micro)

\* --------------------------------------------------------------- names
TransTag == <<"_", "t", "r", "a", "n", "s", "_">>

Digits == <<"0", "1", "2", "3", "4", "5", "6", "7", "8", "9">>

\* str(i) for the row ordinals that occur (one digit).
str(i) == <<Digits[i + 1]>>

\* regressor + '_trans_' + str(iregressor) + '_' + transform
reg_long_name(regressor, iregressor, transform) ==
    regressor \o TransTag \o str(iregressor) \o <<"_">> \o <<transform>>

IsAt(s, p, i) ==
    /\ i + Len(p) - 1 <= Len(s)
    /\ \A j \in 1..Len(p) : s[i + j - 1] = p[j]

\* Position of the first occurrence of p in s, 0 when there is none.
find(s, p) ==
    LET hits == {i \in 1..Len(s) : IsAt(s, p, i)}
    IN  IF hits = {} THEN 0 ELSE CHOOSE i \in hits : \A j \in hits : i <= j

\* reg_long.split('_trans_')[0]
split_head(s, p) ==
    IF find(s, p) = 0 THEN s ELSE SubSeq(s, 1, find(s, p) - 1)

\* ------------------------------------------------- read_parameters_quantfit
\* dict[key] = entry on an insertion-ordered dict kept as a sequence.
dict_set(d, name, entry) ==
    IF \E j \in 1..Len(d) : d[j].name = name
    THEN [j \in 1..Len(d) |-> IF d[j].name = name THEN entry ELSE d[j]]
    ELSE Append(d, entry)

RECURSIVE read_regressors(_, _)
read_regressors(rows, n) ==
    IF n = 0 THEN <<>>
    ELSE LET row  == rows[n]
             name == reg_long_name(row.A, n - 1, row.B)
         IN  dict_set(read_regressors(rows, n - 1), name,
                      [name |-> name, transform |-> row.B, option |-> row.D])

read_parameters_quantfit(c) ==
    [quantlist        |-> c.F31,
     regressors       |-> read_regressors(c.rows, Len(c.rows)),
     sheet_quantreg   |-> c.B51,
     sheet_cond_quant |-> c.B52,
     sheet_input      |-> c.B24]

\* ------------------------------------------------ check_parameters_quantfit
keys == <<"quantlist", "regressors", "sheet_input", "sheet_quantreg", "sheet_cond_quant">>

input_sheets == {"Readme", "Input_parameters", "Partition_groups", "Data", "Processing_Log"}

necessary_vals == <<10, 25, 50, 75, 90>>

\* Variant: the pulldown list with the 'Log' entry the comment on line 231 names.
valid_transforms_with_log == {"None", "Lagged", "MVA", "Power", "Diff", "ChangeRate", "Log"}

valid_transforms == {"None", "Lagged", "MVA", "Power", "Diff", "ChangeRate"}

option_transforms == {"Lagged", "MVA", "Power", "Diff", "ChangeRate"}

\* show_message(message, halt): with halt=True the process is terminated,
\* otherwise the message is shown and the caller continues.
show_message(halt) == IF halt THEN "halt" ELSE "ok"

\* The validator's running state: the dict it works on (mutated in place),
\* and where it stopped.
Halted(st, key, rule, at) ==
    [st EXCEPT !.status = show_message(TRUE), !.key = key, !.rule = rule, !.at = at]

\* Variant: the interval taken closed, 0 <= q <= 1.
quantlist_in_range_closed(val) ==
    /\ \A i \in 1..Len(val) : 0 <= val[i]
    /\ \A i \in 1..Len(val) : val[i] <= 100

quantlist_in_range(val) ==
    /\ \A i \in 1..Len(val) : 0 < val[i]
    /\ \A i \in 1..Len(val) : val[i] < 100

check_quantlist(st) ==
    LET val == st.dict.quantlist
    IN  IF ~quantlist_in_range(val)
        THEN Halted(st, "quantlist", "range", 0)
        ELSE IF \E n \in 1..Len(necessary_vals) : necessary_vals[n] \notin Range(val)
        THEN Halted(st, "quantlist", "necessary", 0)
        ELSE st

option_is_int(option) ==
    ~(option.t # "float" \/ Abs(int(option.v) * Micro - option.v) > Tolerance)

RECURSIVE check_regressors(_, _)
check_regressors(st, i) ==
    IF i > Len(st.dict.regressors) THEN st
    ELSE LET transform == st.dict.regressors[i].transform
             option    == st.dict.regressors[i].option
         IN  IF transform \notin valid_transforms
             THEN Halted(st, "regressors", "transform", i)
             ELSE IF transform \in {"None"} /\ option # None
             THEN Halted(st, "regressors", "option_set", i)
             ELSE IF transform \in option_transforms
             THEN IF ~option_is_int(option)
                  THEN Halted(st, "regressors", "option_int", i)
                  ELSE check_regressors(
                         [st EXCEPT !.dict.regressors[i].option = PyInt(int(option.v))],
                         i + 1)
             ELSE check_regressors(st, i + 1)

\* Variant: the default input sheet set whether or not the cell was empty.
check_sheet_input_always_default(st, sheetnames) ==
    LET st1 == [st EXCEPT !.dict.sheet_input = "Output_partitions"]
    IN  IF "Output_partitions" \notin sheetnames
        THEN Halted(st1, "sheet_input", "missing_sheet", 0)
        ELSE st1

check_sheet_input(st, sheetnames) ==
    IF st.dict.sheet_input = NoneCell
    THEN LET st1 == [st EXCEPT !.dict.sheet_input = "Output_partitions"]
         IN  IF "Output_partitions" \notin sheetnames
             THEN Halted(st1, "sheet_input", "missing_sheet", 0)
             ELSE st1
    ELSE st

default_sheet(key) ==
    IF key = "sheet_quantreg" THEN "Quant reg coefficients" ELSE "Conditional quantiles"

\* Variant: the reserved names compared after the default is applied, with
\* the specified name lost.
check_output_sheet_default_first(st, key) ==
    IF st.dict[key] \in input_sheets
    THEN Halted(st, key, "reserved", 0)
    ELSE [st EXCEPT !.dict[key] = default_sheet(key)]

check_output_sheet(st, key) ==
    IF st.dict[key] = NoneCell
    THEN [st EXCEPT !.dict[key] = default_sheet(key)]
    ELSE IF st.dict[key] \in input_sheets
    THEN Halted(st, key, "reserved", 0)
    ELSE st

check_key(st, key, sheetnames) ==
    IF key \notin DOMAIN st.dict
    THEN [st EXCEPT !.status = "KeyError", !.key = key, !.rule = "missing_key"]
    ELSE IF key = "quantlist" THEN check_quantlist(st)
    ELSE IF key = "regressors" THEN check_regressors(st, 1)
    ELSE IF key = "sheet_input" THEN check_sheet_input(st, sheetnames)
    ELSE check_output_sheet(st, key)

RECURSIVE check_keys(_, _, _, _)
check_keys(st, ks, n, sheetnames) ==
    IF n > Len(ks) \/ st.status # "ok" THEN st
    ELSE check_keys(check_key(st, ks[n], sheetnames), ks, n + 1, sheetnames)

\* The result: status "ok" (accepted), "halt" (show_message(halt=True)) or
\* "KeyError"; key / rule / at say which check stopped it; dict is the
\* argument as the call leaves it.
check_parameters_quantfit(dict, ks, sheetnames) ==
    check_keys([status |-> "ok", key |-> "", rule |-> "", at |-> 0, dict |-> dict],
               ks, 1, sheetnames)

\* ------------------------------------------------------------ data values
NaN == [k |-> "nan", n |-> 0, d |-> 1]
Inf == [k |-> "inf", n |-> 0, d |-> 1]
NegInf == [k |-> "-inf", n |-> 0, d |-> 1]

RECURSIVE gcd(_, _)
gcd(a, b) == IF b = 0 THEN a ELSE gcd(b, a % b)

\* The rational n/d (d # 0) in lowest terms with a positive denominator.
Rat(n, d) ==
    LET g == gcd(Abs(n), Abs(d))
        s == IF d < 0 THEN -1 ELSE 1
    IN  [k |-> "num", n |-> (s * n) \div g, d |-> (s * d) \div g]

Num(n) == Rat(n, 1)

isna(a) == a.k = "nan"

\* IEEE float subtraction on the values that occur (no inf - inf).
fsub(a, b) ==
    IF isna(a) \/ isna(b) THEN NaN
    ELSE IF a.k # "num" THEN a
    ELSE IF b.k = "inf" THEN NegInf
    ELSE IF b.k = "-inf" THEN Inf
    ELSE Rat(a.n * b.d - b.n * a.d, a.d * b.d)

\* IEEE float division of finite values: x/0 is +-inf, 0/0 is NaN.
fdiv(a, b) ==
    IF isna(a) \/ isna(b) THEN NaN
    ELSE IF b.n = 0
    THEN IF a.n = 0 THEN NaN ELSE IF a.n > 0 THEN Inf ELSE NegInf
    ELSE Rat(a.n * b.d, a.d * b.n)

RECURSIVE ipow(_, _)
ipow(b, e) == IF e = 0 THEN 1 ELSE b * ipow(b, e - 1)

\* pandas Series ** int on a float column: NaN ** 0 is 1, 0.0 ** -k is inf.
fpow(a, e) ==
    IF e = 0 THEN Num(1)
    ELSE IF isna(a) THEN NaN
    ELSE IF e > 0 THEN Rat(ipow(a.n, e), ipow(a.d, e))
    ELSE IF a.n = 0 THEN Inf
    ELSE Rat(ipow(a.d, -e), ipow(a.n, -e))

RECURSIVE fsum(_, _, _)
fsum(x, lo, hi) == IF lo > hi THEN Num(0) ELSE
    LET rest == fsum(x, lo + 1, hi)
    IN  IF isna(x[lo]) \/ isna(rest) THEN NaN
        ELSE Rat(x[lo].n * rest.d + rest.n * x[lo].d, x[lo].d * rest.d)

\* --------------------------------------------------- pandas Series methods
\* Variant: the shift taken in the other direction.
shift_forward(x, periods) ==
    [t \in 1..Len(x) |-> IF t + periods \in 1..Len(x) THEN x[t + periods] ELSE NaN]

\* Series.shift(periods)
shift(x, periods) ==
    [t \in 1..Len(x) |-> IF t - periods \in 1..Len(x) THEN x[t - periods] ELSE NaN]

\* Series.diff(periods): x - x.shift(periods)
diff(x, periods) ==
    [t \in 1..Len(x) |-> fsub(x[t], shift(x, periods)[t])]

\* Variant: min_periods=1, the mean of whatever part of the window exists.
rolling_mean_partial(x, window) ==
    [t \in 1..Len(x) |->
        IF window = 0 THEN NaN
        ELSE LET lo == IF t - window + 1 < 1 THEN 1 ELSE t - window + 1
             IN  fdiv(fsum(x, lo, t), Num(t - lo + 1))]

\* Series.rolling(window).mean() with min_periods defaulting to window
\* (window >= 0; a negative window raises ValueError): missing unless the
\* window holds `window` observed values; an empty window has no mean.
rolling_mean(x, window) ==
    [t \in 1..Len(x) |->
        IF window = 0 \/ t - window + 1 < 1 THEN NaN
        ELSE fdiv(fsum(x, t - window + 1, t), Num(window))]

\* Series ** option
power(x, option) == [t \in 1..Len(x) |-> fpow(x[t], option)]

\* Series.fillna(method='pad')
RECURSIVE pad_at(_, _)
pad_at(x, t) ==
    IF t = 0 THEN NaN ELSE IF ~isna(x[t]) THEN x[t] ELSE pad_at(x, t - 1)

fillna_pad(x) == [t \in 1..Len(x) |-> pad_at(x, t)]

\* Series.pct_change(periods), fill_method='pad' (the default of every pandas
\* that still has DataFrame.append, which this file calls):
\*   data = self.fillna(method='pad'); rs = data.div(data.shift(periods)) - 1
\* and then rs is set to NaN where the mask is missing; the mask is taken on
\* self in the older releases and on data in the later ones (mask_self).
pct_change(x, periods, mask_self) ==
    LET data == fillna_pad(x)
        sh   == shift(data, periods)
        mask == IF mask_self THEN x ELSE data
    IN  [t \in 1..Len(x) |->
            IF isna(mask[t]) THEN NaN ELSE fsub(fdiv(data[t], sh[t]), Num(1))]

\* ------------------------------------------------------------------ state
VARIABLES
    pc,                    \* where do_quantfit is: start, prerun, run, done, halted, error
    cells,                 \* sheet Input_parameters: F31 down, rows 31.. (A, B, D), B51, B52, B24
    wb_sheetnames,         \* [sheet.name for sheet in wb.sheets]
    table,                 \* the table of the input sheet (raw series by column name)
    dict_input_quantfit,   \* the parameter dict
    halt,                  \* what check_parameters_quantfit reported: status, key, rule, at
    df_quantfit,           \* the data frame (columns by name)
    fit,                   \* what condquant returned
    action,                \* run_quantfit's status text (its local `action`)
    log_frame,             \* run_quantfit's log frame (its local `log_frame`)
    dict_output_quantfit,  \* the dict run_quantfit returns
    cleared,               \* sheets cleared by postrun_quantfit
    created,               \* sheets added by postrun_quantfit
    written                \* <<sheet, table>> written by postrun_quantfit

vars == <<pc, cells, wb_sheetnames, table, dict_input_quantfit, halt, df_quantfit,
          fit, action, log_frame, dict_output_quantfit, cleared, created, written>>

NoDict == [k \in {} |-> 0]
NoFrame == [c \in {} |-> <<>>]
NoHalt == [status |-> "", key |-> "", rule |-> "", at |-> 0]
NoFit == [exitcode |-> 0, qcoeff_all |-> "", dcond_quantiles_all |-> "", loco_all |-> ""]
NoAction == [text |-> "", code |-> <<>>]

\* -------------------------------------------------------- prerun_quantfit
\* read_parameters_global(): the keys run_quantfit uses.
read_parameters_global == [horizon |-> 1, target |-> <<"y">>]

\* read_data_quantfit(sheetname): the table of an existing sheet.
read_data_quantfit(sheetname, sheetnames, tbl) ==
    IF sheetname \in sheetnames THEN [ok |-> TRUE, df |-> tbl]
    ELSE [ok |-> FALSE, df |-> NoFrame]

\* Variant: the data read before the parameters are checked.
prerun_reads_first(c, sheetnames, tbl) ==
    LET d0     == read_parameters_quantfit(c)
        first  == read_data_quantfit(
                    IF d0.sheet_input = NoneCell THEN "Output_partitions" ELSE d0.sheet_input,
                    sheetnames \cup {"Output_partitions"}, tbl)
        res    == check_parameters_quantfit(d0, keys, sheetnames)
        report == [status |-> res.status, key |-> res.key, rule |-> res.rule, at |-> res.at]
        glob   == read_parameters_global
        merged == [k \in DOMAIN res.dict \cup DOMAIN glob |->
                     IF k \in DOMAIN glob THEN glob[k] ELSE res.dict[k]]
    IN  IF res.status = "halt"
        THEN [pc |-> "halted", halt |-> report, dict |-> res.dict, df |-> first.df]
        ELSE IF res.status # "ok"
        THEN [pc |-> "error", halt |-> report, dict |-> res.dict, df |-> first.df]
        ELSE IF ~first.ok
        THEN [pc |-> "error", halt |-> report, dict |-> merged, df |-> NoFrame]
        ELSE [pc |-> "prerun", halt |-> report, dict |-> merged, df |-> first.df]

\* prerun_quantfit as a function of the workbook: the dict and frame it
\* returns, or how it stopped.
prerun(c, sheetnames, tbl) ==
    LET res    == check_parameters_quantfit(read_parameters_quantfit(c), keys, sheetnames)
        report == [status |-> res.status, key |-> res.key, rule |-> res.rule, at |-> res.at]
        glob   == read_parameters_global
        clash  == DOMAIN glob \cap DOMAIN res.dict # {}
        merged == [k \in DOMAIN res.dict \cup DOMAIN glob |->
                     IF k \in DOMAIN glob THEN glob[k] ELSE res.dict[k]]
        data   == read_data_quantfit(merged.sheet_input, sheetnames, tbl)
    IN  IF res.status = "halt"
        THEN [pc |-> "halted", halt |-> report, dict |-> res.dict, df |-> NoFrame]
        ELSE IF res.status # "ok"
        THEN [pc |-> "error", halt |-> report, dict |-> res.dict, df |-> NoFrame]
        ELSE IF clash
        THEN [pc |-> "halted", halt |-> [report EXCEPT !.status = show_message(TRUE),
                                                        !.rule = "global_clash"],
              dict |-> res.dict, df |-> NoFrame]
        ELSE IF ~data.ok
        THEN [pc |-> "error", halt |-> report, dict |-> merged, df |-> NoFrame]
        ELSE [pc |-> "prerun", halt |-> report, dict |-> merged, df |-> data.df]

prerun_quantfit ==
    /\ pc = "start"
    /\ LET r == prerun(cells, wb_sheetnames, table)
       IN  /\ pc' = r.pc
           /\ halt' = r.halt
           /\ dict_input_quantfit' = r.dict
           /\ df_quantfit' = r.df
    /\ UNCHANGED <<cells, wb_sheetnames, table, fit, action, log_frame,
                   dict_output_quantfit, cleared, created, written>>

\* ----------------------------------------------------------- run_quantfit
\* The column one branch of the transform chain builds (lines 342-353).
transform_column(x, transform, option, mask_self) ==
    IF transform = "None" THEN x
    ELSE IF transform = "Lagged" THEN shift(x, option)
    ELSE IF transform = "MVA" THEN rolling_mean(x, option)
    ELSE IF transform = "Power" THEN power(x, option)
    ELSE IF transform = "Diff" THEN diff(x, option)
    ELSE pct_change(x, option, mask_self)

\* The loop over the regressors: each adds the column reg_long computed from
\* the column reg_short; a missing source column (KeyError) or a negative
\* rolling window (ValueError) ends run_quantfit.
RECURSIVE add_columns(_, _, _, _)
add_columns(regs, n, df, mask_self) ==
    IF n = 0 THEN [ok |-> TRUE, df |-> df]
    ELSE LET prev      == add_columns(regs, n - 1, df, mask_self)
             reg_long  == regs[n].name
             reg_short == split_head(reg_long, TransTag)
             transform == regs[n].transform
             option    == regs[n].option.v
         IN  IF ~prev.ok THEN prev
             ELSE IF reg_short \notin DOMAIN prev.df
             THEN [ok |-> FALSE, df |-> prev.df]
             ELSE IF transform = "MVA" /\ option < 0
             THEN [ok |-> FALSE, df |-> prev.df]
             ELSE [ok |-> TRUE,
                   df |-> [c \in DOMAIN prev.df \cup {reg_long} |->
                            IF c = reg_long
                            THEN transform_column(prev.df[reg_short], transform,
                                                  option, mask_self)
                            ELSE prev.df[c]]]

\* condquant(df, depvar, regressors, horizon, quantlist): three tables and
\* an exit code.
ExitCodes == {-1, 0, 1}

condquant(exitcode) ==
    [exitcode |-> exitcode, qcoeff_all |-> "qcoeff_all",
     dcond_quantiles_all |-> "dcond_quantiles_all", loco_all |-> "loco_all"]

\* Variant: only a negative exit code taken as a failure.
status_action_negative_only(exitcode) ==
    IF exitcode < 0
    THEN [text |-> "Failed to do quantile regression, exit code: ", code |-> <<exitcode>>]
    ELSE [text |-> "Quantile regression finished succesfully.", code |-> <<>>]

\* The status text (lines 362-365): the failure text followed by
\* str(exitcode), or the success text.
status_action(exitcode) ==
    IF exitcode < 1
    THEN [text |-> "Failed to do quantile regression, exit code: ", code |-> <<exitcode>>]
    ELSE [text |-> "Quantile regression finished succesfully.", code |-> <<>>]

\* DataFrame.append(row): a new frame with the row added; the frame it is
\* called on is left as it was.
frame_append(frame, row) == Append(frame, row)

\* log_frame after the statement on line 368, which calls append and drops
\* the frame it returns.
log_after_append(frame, row) ==
    LET dropped == frame_append(frame, row) IN frame

run_output(dict, res) ==
    [sheet_quantreg   |-> dict.sheet_quantreg,
     sheet_cond_quant |-> dict.sheet_cond_quant,
     sheet_input      |-> dict.sheet_input,
     regressors       |-> dict.regressors,
     qcoef            |-> res.qcoeff_all,
     cond_quant       |-> res.dcond_quantiles_all,
     localprj         |-> res.loco_all,
     figs             |-> "figs"]

run_quantfit ==
    /\ pc = "prerun"
    /\ \E mask_self \in BOOLEAN, exitcode \in ExitCodes :
         LET cols == add_columns(dict_input_quantfit.regressors,
                                 Len(dict_input_quantfit.regressors),
                                 df_quantfit, mask_self)
         IN  IF ~cols.ok
             THEN /\ pc' = "error"
                  /\ UNCHANGED <<df_quantfit, fit, action, log_frame, dict_output_quantfit>>
             ELSE /\ pc' = "run"
                  /\ df_quantfit' = cols.df
                  /\ fit' = condquant(exitcode)
                  /\ action' = status_action(exitcode)
                  /\ log_frame' = log_after_append(<<>>, [Action |-> status_action(exitcode)])
                  /\ dict_output_quantfit' = run_output(dict_input_quantfit, condquant(exitcode))
    /\ UNCHANGED <<cells, wb_sheetnames, table, dict_input_quantfit, halt,
                   cleared, created, written>>

\* ------------------------------------------------------- postrun_quantfit
\* The keys of dict_output_quantfit holding 'sheet', in insertion order.
sheetvars == <<"sheet_quantreg", "sheet_cond_quant", "sheet_input">>

\* The first loop (lines 402-436): clear the sheet if it exists, else add it.
RECURSIVE prepare_sheets(_, _, _)
prepare_sheets(out, n, wbs) ==
    IF n = 0 THEN wbs
    ELSE LET prev      == prepare_sheets(out, n - 1, wbs)
             sheetvar  == sheetvars[n]
             sheetname == out[sheetvar]
         IN  IF sheetvar = "sheet_input" THEN prev
             ELSE IF sheetname \in prev.names
             THEN [prev EXCEPT !.cleared = @ \cup {sheetname}]
             ELSE [prev EXCEPT !.names = @ \cup {sheetname},
                               !.created = @ \cup {sheetname}]

\* The second loop (lines 442-449): write the two result tables.
write_results(out) ==
    {<<out.sheet_quantreg, out.qcoef>>, <<out.sheet_cond_quant, out.cond_quant>>}

postrun_quantfit ==
    /\ pc = "run"
    /\ LET wbs == prepare_sheets(dict_output_quantfit, Len(sheetvars),
                                 [names |-> wb_sheetnames, cleared |-> {}, created |-> {}])
       IN  /\ wb_sheetnames' = wbs.names
           /\ cleared' = wbs.cleared
           /\ created' = wbs.created
           /\ written' = write_results(dict_output_quantfit)
    /\ pc' = "done"
    /\ UNCHANGED <<cells, table, dict_input_quantfit, halt, df_quantfit, fit,
                   action, log_frame, dict_output_quantfit>>

\* ------------------------------------------------------------ the inputs
RECURSIVE Ascending(_)
Ascending(S) ==
    IF S = {} THEN <<>>
    ELSE LET m == CHOOSE a \in S : \A b \in S : a <= b
         IN  <<m>> \o Ascending(S \ {m})

Reverse(s) == [i \in 1..Len(s) |-> s[Len(s) + 1 - i]]

\* Quantile cells: the canonical levels, one more level inside (0,1) and the
\* two ends of the interval, in either order.
QuantVals == {0, 5, 10, 25, 50, 75, 90, 100}
QuantLists == {Ascending(S) : S \in SUBSET QuantVals}
                \cup {Reverse(Ascending(S)) : S \in SUBSET QuantVals}

\* Option cells: empty, text, and floats at, just inside, just outside and
\* far from an integer.
OptionOffsets == {0, 5, -5, 20, -20, 500000}
OptionCells == {None, [t |-> "str", v |-> 2]}
                 \cup {Float(n * Micro + e) : n \in -1..MaxLag, e \in OptionOffsets}

TransformCells == valid_transforms \cup {"Log"}

RowCells == {[A |-> <<"x">>, B |-> tr, D |-> o] : tr \in TransformCells, o \in OptionCells}
FewRowCells == {[A |-> <<"x">>, B |-> tr, D |-> o] :
                   tr \in {"None", "Lagged", "Log"},
                   o \in {None, Float(Micro), Float(Micro + 5), Float(2 * Micro + 500000)}}

SheetCells == {NoneCell, "Output_partitions", "Out1", "Conditional quantiles"}
                \cup input_sheets

DataVals == {NaN, Num(-1), Num(0), Num(1), Num(2)}
SeriesSet == UNION {[1..n -> DataVals] : n \in 1..MaxLen}

DefaultQuantlist == <<10, 25, 50, 75, 90>>
DefaultRows == <<[A |-> <<"x">>, B |-> "None", D |-> None]>>
DefaultSheets == input_sheets \cup {"Output_partitions"}
DefaultTable == [c \in {<<"x">>} |-> <<Num(1), Num(2)>>]

InitQuantlists ==
    /\ cells \in {[F31 |-> q, rows |-> DefaultRows, B51 |-> NoneCell, B52 |-> NoneCell,
                   B24 |-> NoneCell] : q \in QuantLists}
    /\ wb_sheetnames = DefaultSheets
    /\ table = DefaultTable

InitRegressors ==
    /\ cells \in {[F31 |-> DefaultQuantlist, rows |-> rs, B51 |-> NoneCell,
                   B52 |-> NoneCell, B24 |-> NoneCell] :
                     rs \in {<<r>> : r \in RowCells}
                              \cup {<<r1, r2>> : r1 \in FewRowCells, r2 \in FewRowCells}}
    /\ wb_sheetnames = DefaultSheets
    /\ table = DefaultTable

InitSheets ==
    /\ cells \in {[F31 |-> DefaultQuantlist, rows |-> DefaultRows, B51 |-> s1,
                   B52 |-> s2, B24 |-> s3] :
                     s1 \in SheetCells, s2 \in SheetCells,
                     s3 \in {NoneCell, "Output_partitions", "Out1"}}
    /\ wb_sheetnames \in {input_sheets \cup S : S \in SUBSET {"Output_partitions", "Out1"}}
    /\ table = DefaultTable

InitData ==
    /\ cells \in {[F31 |-> DefaultQuantlist, rows |-> <<r>>, B51 |-> NoneCell,
                   B52 |-> NoneCell, B24 |-> NoneCell] :
                     r \in {[A |-> <<"x">>, B |-> tr, D |-> Float(k * Micro)] :
                              tr \in option_transforms, k \in -1..MaxLag}
                             \cup {DefaultRows[1]}}
    /\ wb_sheetnames = DefaultSheets
    /\ table \in {[c \in {<<"x">>} |-> x] : x \in SeriesSet}

\* Series names: plain, holding '_trans_', ending in '_trans' (so that the
\* tag of the synthesized name overlaps it), and one whose head is no column.
SourceNames == {<<"x">>,
                <<"x">> \o TransTag \o <<"b">>,
                <<"x", "_", "t", "r", "a", "n", "s">>,
                <<"y">> \o TransTag \o <<"b">>}
NameRowCells == {[A |-> a, B |-> o[1], D |-> o[2]] :
                    a \in SourceNames,
                    o \in {<<"None", None>>, <<"Lagged", Float(Micro)>>}}
\* A table with one column per series name, each with its own values.
NamesTable ==
    [c \in SourceNames |->
        IF c = <<"x">> THEN <<Num(1), Num(2)>>
        ELSE IF c = <<"x">> \o TransTag \o <<"b">> THEN <<Num(0), NaN>>
        ELSE IF c = <<"x", "_", "t", "r", "a", "n", "s">> THEN <<Num(2), Num(-1)>>
        ELSE <<NaN, Num(0)>>]

InitNames ==
    /\ cells \in {[F31 |-> DefaultQuantlist, rows |-> rs, B51 |-> NoneCell,
                   B52 |-> NoneCell, B24 |-> NoneCell] :
                     rs \in {<<r>> : r \in NameRowCells}
                              \cup {<<r1, r2>> : r1 \in NameRowCells, r2 \in NameRowCells}}
    /\ wb_sheetnames = DefaultSheets
    /\ table = NamesTable

Init ==
    /\ pc = "start"
    /\ InitQuantlists \/ InitRegressors \/ InitSheets \/ InitData \/ InitNames
    /\ dict_input_quantfit = NoDict
    /\ halt = NoHalt
    /\ df_quantfit = NoFrame
    /\ fit = NoFit
    /\ action = NoAction
    /\ log_frame = <<>>
    /\ dict_output_quantfit = NoDict
    /\ cleared = {}
    /\ created = {}
    /\ written = {}

\* do_quantfit: prerun, run, postrun, each once and in this order.
Next == prerun_quantfit \/ run_quantfit \/ postrun_quantfit

Spec == Init /\ [][Next]_vars

\* =================================================================== claims
\* What the claims speak about.
Checked == pc # "start"
Accepted == Checked /\ halt.status = "ok"
\* The dict as read_parameters_quantfit built it, before the validator ran.
Before == read_parameters_quantfit(cells)
After == dict_input_quantfit
NRegs == Len(Before.regressors)
\* The validator reached regressor i / the key of an output sheet.
RegReached(i) ==
    /\ Checked
    /\ halt.key # "quantlist"
    /\ halt.key = "regressors" => halt.at >= i
RegRejected(i) == halt.status = "halt" /\ halt.key = "regressors" /\ halt.at = i
RegPassed(i) == RegReached(i) /\ ~RegRejected(i)
KeyReached(key) ==
    /\ Checked
    /\ \/ halt.status = "ok"
       \/ halt.key = key
       \/ key = "sheet_quantreg" /\ halt.key = "sheet_cond_quant"
CanonicalLevels == {10, 25, 50, 75, 90}
SixKinds == {"None", "Lagged", "MVA", "Power", "Diff", "ChangeRate"}
ReservedNames == {"Readme", "Input_parameters", "Partition_groups", "Data", "Processing_Log"}

\* C1: the quantile list passes validation (no halt for the key 'quantlist')
\* if and only if every level lies strictly between 0 and 1 and each of
\* 0.10, 0.25, 0.50, 0.75, 0.90 is in the list; otherwise (the empty list
\* and a list missing one canonical level included) the validator halts.
C1_QuantlistAcceptedIff ==
    Checked =>
        LET q    == cells.F31
            good == /\ \A i \in 1..Len(q) : 0 < q[i] /\ q[i] < 100
                    /\ CanonicalLevels \subseteq Range(q)
        IN  /\ good <=> halt.key # "quantlist"
            /\ ~good => halt.status = "halt" /\ pc = "halted"

\* An accepted list holding a sixth level besides the canonical five.
C1_Witness ==
    /\ Accepted
    /\ Len(cells.F31) = 6
    /\ 5 \in Range(cells.F31)

\* C2 (as claimed): an Identity entry passes only without an option; any
\* other entry passes exactly when its option is a float within 1e-5 of some
\* integer n, above or below, and the stored option then is that n.
NearInts(option) ==
    {n \in -(MaxLag + 3)..(MaxLag + 3) :
        option.t = "float" /\ Abs(option.v - n * Micro) <= Tolerance}
C2_OptionRuleAsClaimed ==
    Checked =>
        \A i \in 1..NRegs :
            LET r == Before.regressors[i]
            IN  (RegReached(i) /\ r.transform \in SixKinds) =>
                    IF r.transform = "None"
                    THEN RegPassed(i) <=> r.option = None
                    ELSE /\ RegPassed(i) <=> NearInts(r.option) # {}
                         /\ RegPassed(i) =>
                              \E n \in NearInts(r.option) :
                                  After.regressors[i].option = PyInt(n)

\* C3 (as claimed): in every accepted configuration the option of each
\* Lagged, MVA, Diff and ChangeRate regressor is a non-negative integer.
C3_OptionNonNegativeAsClaimed ==
    Accepted =>
        \A i \in 1..NRegs :
            After.regressors[i].transform \in {"Lagged", "MVA", "Diff", "ChangeRate"} =>
                /\ After.regressors[i].option.t = "int"
                /\ After.regressors[i].option.v >= 0

\* C4: fail fast: once check_parameters_quantfit has found a violation,
\* do_quantfit has stopped, and the data is not read, no transformed column
\* exists, the fit has not run and no sheet is cleared, created or written.
C4_FailFast ==
    (Checked /\ halt.status # "ok") =>
        /\ pc \in {"halted", "error"}
        /\ df_quantfit = NoFrame
        /\ fit = NoFit
        /\ dict_output_quantfit = NoDict
        /\ cleared = {} /\ created = {} /\ written = {}

\* A run stopped by a reserved output sheet name, the last rule checked.
C4_Witness ==
    /\ pc = "halted"
    /\ halt.rule = "reserved"
    /\ halt.key = "sheet_cond_quant"

\* C5 (as claimed): after check_parameters_quantfit returns, its argument
\* holds exactly the values it held before the call.
C5_NoSideEffectsAsClaimed ==
    Checked => \A k \in DOMAIN Before : After[k] = Before[k]

\* C5 (amended): the validator changes its argument only by normalising it:
\* the option of a regressor that passed the option check becomes
\* int(option), an empty sheet cell becomes its default name; the quantile
\* list, the keys, each regressor's name and transform, the option of every
\* other regressor and every specified sheet name stay as they were.
DefaultName(k) ==
    IF k = "sheet_input" THEN "Output_partitions"
    ELSE IF k = "sheet_quantreg" THEN "Quant reg coefficients"
    ELSE "Conditional quantiles"
C5_OnlyNormalises ==
    Checked =>
        /\ DOMAIN Before \subseteq DOMAIN After
        /\ After.quantlist = Before.quantlist
        /\ Len(After.regressors) = NRegs
        /\ \A i \in 1..NRegs :
              LET b == Before.regressors[i]
                  a == After.regressors[i]
              IN  /\ a.name = b.name
                  /\ a.transform = b.transform
                  /\ IF RegPassed(i) /\ b.transform # "None"
                     THEN a.option = PyInt(int(b.option.v))
                     ELSE a.option = b.option
        /\ \A k \in {"sheet_input", "sheet_quantreg", "sheet_cond_quant"} :
              IF Before[k] = NoneCell
              THEN After[k] \in {NoneCell, DefaultName(k)}
              ELSE After[k] = Before[k]

\* A rejected call that had already coerced an option (1.000005 to 1) and an
\* accepted one that kept a specified sheet name while defaulting another.
C5_Witness ==
    \/ /\ Checked
       /\ halt.status = "halt"
       /\ NRegs = 2
       /\ Before.regressors[1].option = Float(Micro + 5)
       /\ After.regressors[1].option = PyInt(1)
    \/ /\ Accepted
       /\ Before.sheet_input = "Out1"
       /\ Before.sheet_quantreg = NoneCell
       /\ After.sheet_quantreg = "Quant reg coefficients"

Ran == pc \in {"run", "done"}
Source(i) == table[split_head(dict_input_quantfit.regressors[i].name, TransTag)]
Declared(i) == table[cells.rows[i].A]
Kind(i) == dict_input_quantfit.regressors[i].transform
K(i) == dict_input_quantfit.regressors[i].option.v
Column(i) == df_quantfit[dict_input_quantfit.regressors[i].name]
InRange(x, t) == t \in 1..Len(x)
\* The rows of x the claimed formula of a transform reads for row t.
RowsRead(x, kind, k, t) ==
    IF kind \in {"None", "Power"} THEN {t}
    ELSE IF kind = "Lagged" THEN {t - k} \cap (1..Len(x))
    ELSE IF kind = "MVA" THEN ((t - k + 1)..t) \cap (1..Len(x))
    ELSE {t, t - k} \cap (1..Len(x))

\* C8 (as claimed): missing values propagate through every transform: if
\* any source value the transform's formula reads for row t is missing, the
\* transformed column is missing at row t.
C8_MissingPropagatesAsClaimed ==
    Ran =>
        \A i \in 1..Len(dict_input_quantfit.regressors) :
            \A t \in 1..Len(Source(i)) :
                (\E j \in RowsRead(Source(i), Kind(i), K(i), t) : isna(Source(i)[j]))
                    => isna(Column(i)[t])

\* C9 (as claimed): Diff is x[t] - x[t-k] wherever t-k is in range;
\* ChangeRate is (x[t] - x[t-k]) / x[t-k] there, and missing whenever x[t-k]
\* is zero or missing; both are missing where t-k is out of range.
ClaimedDiff(x, k, t) ==
    IF ~InRange(x, t - k) \/ isna(x[t]) \/ isna(x[t - k]) THEN NaN
    ELSE Rat(x[t].n * x[t - k].d - x[t - k].n * x[t].d, x[t].d * x[t - k].d)
ClaimedChangeRate(x, k, t) ==
    IF ~InRange(x, t - k) \/ isna(x[t]) \/ isna(x[t - k]) THEN NaN
    ELSE IF x[t - k].n = 0 THEN NaN
    ELSE Rat(ClaimedDiff(x, k, t).n * x[t - k].d, ClaimedDiff(x, k, t).d * x[t - k].n)
C9_DiffChangeRateAsClaimed ==
    Ran =>
        \A i \in 1..Len(dict_input_quantfit.regressors) :
            \A t \in 1..Len(Source(i)) :
                /\ Kind(i) = "Diff" => Column(i)[t] = ClaimedDiff(Source(i), K(i), t)
                /\ Kind(i) = "ChangeRate" =>
                       Column(i)[t] = ClaimedChangeRate(Source(i), K(i), t)

\* C10: the Identity column equals the series at every row, missing rows
\* included; the Lagged(k) column is x[t-k] where t-k is in range and
\* missing elsewhere; Lagged(0) is the Identity column.
C10_IdentityLagged ==
    Ran =>
        \A i \in 1..Len(dict_input_quantfit.regressors) :
            LET x == Source(i)
            IN  /\ Kind(i) = "None" => Column(i) = x
                /\ Kind(i) = "Lagged" =>
                       /\ Len(Column(i)) = Len(x)
                       /\ \A t \in 1..Len(x) :
                              Column(i)[t] = IF InRange(x, t - K(i)) THEN x[t - K(i)] ELSE NaN
                       /\ K(i) = 0 => Column(i) = x

\* A Lagged(1) column built from a full-length series with a missing value
\* in the middle and different values around it.
C10_Witness ==
    /\ Ran
    /\ Kind(1) = "Lagged"
    /\ K(1) = 1
    /\ Len(Source(1)) = MaxLen
    /\ isna(Source(1)[2])
    /\ Source(1)[1] = Num(1)
    /\ Column(1)[2] = Num(1)
    /\ isna(Column(1)[3])

\* C11: on a fully observed series of n rows, with a window 1 <= k <= n, the
\* MVA column is missing at the first k-1 rows and at each later row t is
\* the mean of the k values x[t-k+1..t].
RECURSIVE SumOfRows(_, _, _)
SumOfRows(x, lo, hi) ==
    IF lo > hi THEN 0 ELSE x[lo].n + SumOfRows(x, lo + 1, hi)
FullyObserved(x) == \A t \in 1..Len(x) : x[t].k = "num" /\ x[t].d = 1
C11_TrailingMean ==
    Ran =>
        \A i \in 1..Len(dict_input_quantfit.regressors) :
            LET x == Source(i)
                k == K(i)
            IN  (Kind(i) = "MVA" /\ FullyObserved(x) /\ 1 <= k /\ k <= Len(x)) =>
                    /\ Len(Column(i)) = Len(x)
                    /\ \A t \in 1..Len(x) :
                          IF t <= k - 1
                          THEN Column(i)[t].k = "nan"
                          ELSE /\ Column(i)[t].k = "num"
                               /\ Column(i)[t].n * k
                                    = SumOfRows(x, t - k + 1, t) * Column(i)[t].d

\* A window of 2 on a full-length observed series whose trailing means are
\* not whole numbers: row 1 missing, row 2 is 3/2.
C11_Witness ==
    /\ Ran
    /\ Kind(1) = "MVA"
    /\ K(1) = 2
    /\ Len(Source(1)) = MaxLen
    /\ FullyObserved(Source(1))
    /\ Source(1)[1] = Num(1)
    /\ Source(1)[2] = Num(2)
    /\ Column(1)[1] = NaN
    /\ Column(1)[2] = Rat(3, 2)

\* What run_quantfit returned to its caller.
Returned == dict_output_quantfit
FailureText == "Failed to do quantile regression, exit code: "
SuccessText == "Quantile regression finished succesfully."

\* C12 (as claimed): whatever the exit code, run_quantfit returns the three
\* result tables together with an explicit status: the diagnostic code or
\* the status text is part of what the caller receives, so that the caller
\* can tell a failed fit from a successful one (what it receives differs
\* from what it would receive had the fit ended the other way).
C12_ExplicitStatusAsClaimed ==
    Ran =>
        /\ {"qcoef", "cond_quant", "localprj"} \subseteq DOMAIN Returned
        /\ \/ {"exitcode", "action", "log_frame"} \cap DOMAIN Returned # {}
           \/ \A c \in ExitCodes :
                  ((c <= 0) # (fit.exitcode <= 0)) =>
                      Returned # run_output(dict_input_quantfit, condquant(c))

\* C13: the status action is the failure text carrying the exit code exactly
\* when the code is non-positive and the success text exactly when it is
\* positive; either way run_quantfit stores the driver's three tables in
\* the output dict and returns.
C13_StatusAction ==
    Ran =>
        /\ fit.exitcode <= 0 <=>
               (action.text = FailureText /\ action.code = <<fit.exitcode>>)
        /\ fit.exitcode > 0 <=> (action.text = SuccessText /\ action.code = <<>>)
        /\ Returned.qcoef = fit.qcoeff_all
        /\ Returned.cond_quant = fit.dcond_quantiles_all
        /\ Returned.localprj = fit.loco_all

\* run_quantfit has returned after a fit that ended with exit code 0.
C13_Witness ==
    /\ pc = "run"
    /\ fit.exitcode = 0
    /\ action.text = FailureText
    /\ Returned.qcoef = "qcoeff_all"

\* C14 (as claimed): the synthesized feature name round-trips to its source
\* series: for every regressor entry built from (source name, ordinal,
\* transform), the text before the first '_trans_' of the synthesized name
\* is exactly the source name, names holding '_trans_' included; hence each
\* transformed column is computed from the series declared for it.
C14_NameRoundTripAsClaimed ==
    /\ Checked =>
          \A i \in 1..NRegs :
              split_head(After.regressors[i].name, TransTag) = cells.rows[i].A
    /\ Ran =>
          \A i \in 1..NRegs : Source(i) = Declared(i)

\* C15 (as claimed): after postrun_quantfit has run on an accepted
\* configuration, the sheet named by sheet_input is neither cleared nor
\* written with results; only other sheets are cleared, created or written.
C15_InputSheetUntouchedAsClaimed ==
    pc = "done" =>
        /\ Returned.sheet_input \notin cleared
        /\ Returned.sheet_input \notin created
        /\ \A w \in written : w[1] # Returned.sheet_input

====
